---- MODULE Spec2Model ----
(***************************************************************************)
(* Runtime-filter coordination of the pipeline engine                      *)
(* (be/src/exec/pipeline/runtime_filter_types.h):                          *)
(*   RuntimeFilterCollector, RuntimeFilterHolder, RuntimeFilterHub,        *)
(*   RefCountedRuntimeFilterProbeCollector, PartialRuntimeFilterMerger;    *)
(* and the failed-channel bookkeeping of OlapTableSink                     *)
(* (be/src/exec/tablet_sink.h).                                            *)
(*                                                                         *)
(* Conventions.  A pointer is a natural number, 0 being nullptr.  A        *)
(* nullable object is a record with a field nil.  std::vector is a         *)
(* function on 0..size-1 (the code's indices), std::list a sequence.       *)
(***************************************************************************)
EXTENDS Integers, Sequences, FiniteSets, TLC

\* ---------------------------------------------------------------- bounds
\* number of HashJoinBuildOperator instances feeding one merger
NumBuilders == 3
\* number of OperatorFactories sharing one RefCountedRuntimeFilterProbeCollector
NumOperators == 3
\* number of concurrent readers of the hub's holders
NumReaders == 1
\* number of join-build plan nodes registered in the hub
NumPlanNodes == 3
\* number of join keys, one IN-filter per key in every posted list
NumJoinKeys == 2
\* number of runtime bloom-filter descriptors of the join
NumDescs == 2
\* longest tuple-slot mapping list and IN-filter list given to rewrite_in_filters
MaxMappings == 2
MaxFilters == 2
\* how many times rewrite_in_filters is applied in a row
MaxRewrites == 2
\* number of backend nodes an OlapTableSink has channels to
NumNodes == 4
\* largest replication number of the sink's table
MaxReplicas == 3

\* ------------------------------------------------------ program constants
\* the row threshold of merge_in_filters
InFilterRowLimit == 1024
\* 1 << 16: the 64-bit refcount is kept as four 16-bit limbs, least significant first
LimbBase == 65536

Max(a, b) == IF a >= b THEN a ELSE b

VARIABLES
    \* RefCountedRuntimeFilterProbeCollector
    count,              \* _count, a 64-bit word as four limbs
    op_prepare,         \* position of each operator's prepare() call
    op_close,           \* position of each operator's close() call
    rf_prepare_calls,   \* invocations of _rf_probe_collector.prepare
    rf_open_calls,      \* invocations of _rf_probe_collector.open
    rf_close_calls,     \* invocations of _rf_probe_collector.close
    close_order,        \* the operators in the order of their close() decrements
    close_trigger,      \* ordinal of the close() call that ran the wrapped close, 0 if none
    early_closers,      \* operators whose close() came when their own prepare() had not returned
    \* RuntimeFilterHub / RuntimeFilterHolder
    holders,            \* _holders: plan node id -> holder
    hub_frozen,         \* plan construction is over, the key set is fixed
    set_pc,             \* position of the set_collector call on each holder
    reads,              \* what each reader got from its get_collector calls
    ready_seen,         \* ids on which some get_collector has returned non-null
    null_after_ready,   \* some get_collector returned null on an id already in ready_seen
    gathered,           \* the last gather_holders call: the ids asked for and the vector returned
    \* PartialRuntimeFilterMerger
    limit,              \* _limit
    num_active_builders,
    ht_row_counts,
    partial_in_filters,
    partial_bloom_filter_build_params,
    bloom_filter_descriptors,
    descs,              \* the RuntimeFilterBuildDescriptor objects the lists point to
    arg_ht,             \* the arguments builder idx passes to add_partial_filters
    arg_in,
    arg_params,
    bpc,                \* position of each builder in add_partial_filters and after
    ret,                \* what add_partial_filters returned to each builder
    merge_in_status,    \* Status returned by merge_in_filters
    merge_bloom_status, \* Status returned by merge_bloom_filters
    fill_failures,      \* the <<builder, position>> at which fill_runtime_bloom_filter fails
    \* RuntimeFilterCollector::rewrite_in_filters
    rw_in_filters,      \* _in_filters of the collector being rewritten
    rw_mappings,        \* the mapping list of the call
    rw_history,         \* _in_filters before the first call and after each call so far
    rw_bloom_filters,   \* _bloom_filters of the collector being rewritten
    \* OlapTableSink
    failed_channels,    \* _failed_channels, a set of node ids
    num_repicas,        \* _num_repicas
    write_quorum_type   \* _write_quorum_type

refVars == <<count, op_prepare, op_close, rf_prepare_calls, rf_open_calls, rf_close_calls,
             close_order, close_trigger, early_closers>>
hubVars == <<holders, hub_frozen, set_pc, reads, ready_seen, null_after_ready, gathered>>
mergerVars == <<limit, num_active_builders, ht_row_counts, partial_in_filters,
                partial_bloom_filter_build_params, bloom_filter_descriptors, descs,
                arg_ht, arg_in, arg_params, bpc, ret, merge_in_status,
                merge_bloom_status, fill_failures>>
rwVars == <<rw_in_filters, rw_mappings, rw_history, rw_bloom_filters>>
sinkVars == <<failed_channels, num_repicas, write_quorum_type>>
vars == <<refVars, hubVars, mergerVars, rwVars, sinkVars>>

Builders == 0 .. NumBuilders - 1
PlanNodeIds == 1 .. NumPlanNodes
CollectorAddrs == 1 .. NumPlanNodes
\* the join-build node the merger belongs to
MergerNode == CHOOSE id \in PlanNodeIds : \A other \in PlanNodeIds : id <= other
Operators == 1 .. NumOperators
Readers == 1 .. NumReaders

\* ============================================================================
\* RefCountedRuntimeFilterProbeCollector
\* ============================================================================

\* a size_t below 2^31 as a 64-bit word
Word(n) == <<n % LimbBase, n \div LimbBase, 0, 0>>

\* (n << 32) | n for a size_t n below 2^31
InitialCount(n) == <<n % LimbBase, n \div LimbBase, n % LimbBase, n \div LimbBase>>

\* 1ull << 32
CloseUnit == <<0, 0, 1, 0>>

\* a - b on 64-bit unsigned words (wraps modulo 2^64)
Sub64(a, b) ==
    LET d1 == a[1] - b[1]
        c1 == IF d1 < 0 THEN 1 ELSE 0
        d2 == a[2] - b[2] - c1
        c2 == IF d2 < 0 THEN 1 ELSE 0
        d3 == a[3] - b[3] - c2
        c3 == IF d3 < 0 THEN 1 ELSE 0
        d4 == a[4] - b[4] - c3
    IN  <<d1 % LimbBase, d2 % LimbBase, d3 % LimbBase, d4 % LimbBase>>

\* w & 0xffff'ffffull
Low32(w) == <<w[1], w[2], 0, 0>>

\* the test of prepare() on the value fetch_sub returned
IsFirstPrepareNonZero(pre, n) == Low32(pre) # Word(0)
IsFirstPrepare(pre, n) == Low32(pre) = Word(n)

\* the test of close() on the value fetch_sub returned
IsLastCloseHighOnly(pre) == <<pre[3], pre[4]>> = <<CloseUnit[3], CloseUnit[4]>>
IsLastCloseLowOnly(pre) == Low32(pre) = Low32(CloseUnit)
IsLastClose(pre) == pre = CloseUnit

RefInit ==
    /\ count = InitialCount(NumOperators)
    /\ op_prepare = [o \in Operators |-> "idle"]
    /\ op_close = [o \in Operators |-> "idle"]
    /\ rf_prepare_calls = 0
    /\ rf_open_calls = 0
    /\ rf_close_calls = 0
    /\ close_order = <<>>
    /\ close_trigger = 0
    /\ early_closers = {}

\* prepare(), the fetch_sub and the test on its result
PrepareFetchSub(o) ==
    /\ op_prepare[o] = "idle"
    /\ count' = Sub64(count, Word(1))
    /\ op_prepare' = [op_prepare EXCEPT ![o] =
            IF IsFirstPrepare(count, NumOperators) THEN "call_prepare" ELSE "ret_ok"]
    /\ UNCHANGED <<op_close, rf_prepare_calls, rf_open_calls, rf_close_calls,
                   close_order, close_trigger, early_closers>>

\* prepare(), RETURN_IF_ERROR(_rf_probe_collector.prepare(...))
WrappedPrepare(o) ==
    /\ op_prepare[o] = "call_prepare"
    /\ rf_prepare_calls' = rf_prepare_calls + 1
    /\ \E ok \in BOOLEAN :
          op_prepare' = [op_prepare EXCEPT ![o] = IF ok THEN "call_open" ELSE "ret_error"]
    /\ UNCHANGED <<count, op_close, rf_open_calls, rf_close_calls, close_order, close_trigger,
                   early_closers>>

\* prepare(), RETURN_IF_ERROR(_rf_probe_collector.open(state)) and the return
WrappedOpen(o) ==
    /\ op_prepare[o] = "call_open"
    /\ rf_open_calls' = rf_open_calls + 1
    /\ \E ok \in BOOLEAN :
          op_prepare' = [op_prepare EXCEPT ![o] = IF ok THEN "ret_ok" ELSE "ret_error"]
    /\ UNCHANGED <<count, op_close, rf_prepare_calls, rf_close_calls, close_order,
                   close_trigger, early_closers>>

\* close(), the fetch_sub and the test on its result
CloseFetchSub(o) ==
    /\ op_close[o] = "idle"
    /\ count' = Sub64(count, CloseUnit)
    /\ close_order' = Append(close_order, o)
    /\ op_close' = [op_close EXCEPT ![o] = IF IsLastClose(count) THEN "call_close" ELSE "ret"]
    /\ early_closers' = IF op_prepare[o] \in {"ret_ok", "ret_error"} THEN early_closers
                        ELSE early_closers \cup {o}
    /\ UNCHANGED <<op_prepare, rf_prepare_calls, rf_open_calls, rf_close_calls, close_trigger>>

\* close(), _rf_probe_collector.close(state) and the return
WrappedClose(o) ==
    /\ op_close[o] = "call_close"
    /\ rf_close_calls' = rf_close_calls + 1
    /\ close_trigger' = CHOOSE n \in 1 .. Len(close_order) : close_order[n] = o
    /\ op_close' = [op_close EXCEPT ![o] = "ret"]
    /\ UNCHANGED <<count, op_prepare, rf_prepare_calls, rf_open_calls, close_order,
                   early_closers>>

\* ============================================================================
\* RuntimeFilterHolder and RuntimeFilterHub
\* ============================================================================

\* a RuntimeFilterCollector object: its address and its two lists
Collector(a, ins, blooms) == [addr |-> a, in_filters |-> ins, bloom_filters |-> blooms]

\* an empty unique_ptr<RuntimeFilterCollector>
NoCollector == Collector(0, <<>>, <<>>)

\* make_unique<RuntimeFilterHolder>(): value-initialised, both members null
EmptyHolder == [collector_ownership |-> NoCollector, collector |-> 0]

\* the address a holder's atomic pointer receives in set_collector
StoredPointerOther(h) == IF h.collector_ownership.addr = 0 THEN 0 ELSE h.collector_ownership.addr + 1
StoredPointer(h) == h.collector_ownership.addr

\* RuntimeFilterHolder::get_collector
get_collector(h) == h.collector

\* RuntimeFilterHolder::is_ready
is_ready(h) == get_collector(h) # 0

\* RuntimeFilterHub::get_holder (DCHECK: the id has a holder)
get_holder(id) == holders[id]

\* the collector object at an address (the objects live in the holders that own them)
Deref(a) ==
    IF \E id \in DOMAIN holders : holders[id].collector_ownership.addr = a /\ a # 0
    THEN holders[CHOOSE id \in DOMAIN holders : holders[id].collector_ownership.addr = a]
             .collector_ownership
    ELSE NoCollector

FreeAddrs == {a \in CollectorAddrs :
                \A id \in DOMAIN holders : holders[id].collector_ownership.addr # a}

HubInit ==
    /\ holders = [id \in {} |-> EmptyHolder]
    /\ hub_frozen = FALSE
    /\ set_pc = [id \in PlanNodeIds |-> "idle"]
    /\ reads = [r \in Readers |-> [id |-> MergerNode, addr |-> 0, collector |-> NoCollector]]
    /\ ready_seen = {}
    /\ null_after_ready = FALSE
    /\ gathered = [ids |-> {}, holders |-> <<>>]

\* the hub as the pipelines find it: a holder per join-build node, key set fixed
HubBuilt ==
    /\ holders = [id \in PlanNodeIds |-> EmptyHolder]
    /\ hub_frozen = TRUE
    /\ set_pc = [id \in PlanNodeIds |-> "idle"]
    /\ reads = [r \in Readers |-> [id |-> MergerNode, addr |-> 0, collector |-> NoCollector]]
    /\ ready_seen = {}
    /\ null_after_ready = FALSE
    /\ gathered = [ids |-> {}, holders |-> <<>>]

\* RuntimeFilterHub::add_holder: emplace keeps an existing entry
add_holder(id) ==
    /\ ~hub_frozen
    /\ holders' = [x \in DOMAIN holders \cup {id} |->
                      IF x \in DOMAIN holders THEN holders[x] ELSE EmptyHolder]
    /\ UNCHANGED <<hub_frozen, set_pc, reads, ready_seen, null_after_ready, gathered>>

\* plan construction ends; from here on the holders are only looked up
FinishPlanConstruction ==
    /\ ~hub_frozen
    /\ hub_frozen' = TRUE
    /\ UNCHANGED <<holders, set_pc, reads, ready_seen, null_after_ready, gathered>>

\* set_collector, first statement: _collector_ownership = std::move(collector)
set_collector_move(id, c) ==
    /\ hub_frozen
    /\ id \in DOMAIN holders
    /\ set_pc[id] = "idle"
    /\ holders' = [holders EXCEPT ![id].collector_ownership = c]
    /\ set_pc' = [set_pc EXCEPT ![id] = "owned"]
    /\ UNCHANGED <<hub_frozen, reads, ready_seen, null_after_ready, gathered>>

\* set_collector, second statement: _collector.store(_collector_ownership.get(), release)
set_collector_store(id) ==
    /\ set_pc[id] = "owned"
    /\ holders' = [holders EXCEPT ![id].collector = StoredPointer(get_holder(id))]
    /\ set_pc' = [set_pc EXCEPT ![id] = "stored"]
    /\ UNCHANGED <<hub_frozen, reads, ready_seen, null_after_ready, gathered>>

\* a reader calls get_collector on the holder of id and looks at what it points to
ReadHolder(r, id) ==
    /\ hub_frozen
    /\ id \in DOMAIN holders
    /\ LET a == get_collector(get_holder(id)) IN
        /\ reads' = [reads EXCEPT ![r] = [id |-> id, addr |-> a, collector |-> Deref(a)]]
        /\ ready_seen' = IF a # 0 THEN ready_seen \cup {id} ELSE ready_seen
        /\ null_after_ready' = (null_after_ready \/ (a = 0 /\ id \in ready_seen))
    /\ UNCHANGED <<holders, hub_frozen, set_pc, gathered>>

\* a RuntimeFilterHolder*: the holders live in the map entries, which are never
\* removed nor replaced, so the key of its entry names a holder
HolderPtr(id) == id
HolderAt(ptr) == holders[ptr]

\* RuntimeFilterHub::gather_holders: the ids of the std::set in ascending order,
\* get_holder(id).get() pushed back for each
RECURSIVE gather_holders_ready_only(_)
gather_holders_ready_only(ids) ==
    IF ids = {} THEN <<>>
    ELSE LET id == CHOOSE x \in ids : \A y \in ids : x <= y
         IN  IF is_ready(get_holder(id))
             THEN <<HolderPtr(id)>> \o gather_holders_ready_only(ids \ {id})
             ELSE gather_holders_ready_only(ids \ {id})
RECURSIVE gather_holders(_)
gather_holders(ids) ==
    IF ids = {} THEN <<>>
    ELSE LET id == CHOOSE x \in ids : \A y \in ids : x <= y
         IN  <<HolderPtr(id)>> \o gather_holders(ids \ {id})

\* a consumer node gathers the holders of its upstream producers
GatherHolders(ids) ==
    /\ hub_frozen
    /\ ids \subseteq DOMAIN holders
    /\ gathered' = [ids |-> ids, holders |-> gather_holders(ids)]
    /\ UNCHANGED <<holders, hub_frozen, set_pc, reads, ready_seen, null_after_ready>>

\* a RuntimeInFilter (ExprContext*): nullptr, or an IN-predicate over the column
\* reference (tuple_id, slot_id) with its set of keys
InFilter(t, s, keys) == [nil |-> FALSE, tuple_id |-> t, slot_id |-> s, keys |-> keys]
NullInFilter == [nil |-> TRUE, tuple_id |-> 0, slot_id |-> 0, keys |-> {}]

\* ============================================================================
\* RuntimeFilterCollector::rewrite_in_filters
\* ============================================================================

\* the (tuple id, slot id) pairs of the model's plans
Bindings == {<<1, 1>>, <<1, 2>>, <<2, 1>>}

\* TupleSlotMapping
TupleSlotMapping(from, to) ==
    [from_tuple_id |-> from[1], from_slot_id |-> from[2],
     to_tuple_id |-> to[1], to_slot_id |-> to[2]]

\* sequences over S of length at most n
SeqsUpTo(S, n) == UNION {[1 .. k -> S] : k \in 0 .. n}

\* Expr::is_bound of an IN-predicate over one column reference: the column's tuple
\* is among tuple_ids
is_bound(in_filter, tuple_ids) == in_filter.tuple_id \in tuple_ids

\* rewrite_in_filters, the body of the inner loop for one filter and one mapping
RewriteOneBothWays(in_filter, mapping) ==
    IF in_filter.tuple_id = mapping.to_tuple_id /\ in_filter.slot_id = mapping.to_slot_id
    THEN [in_filter EXCEPT !.slot_id = mapping.from_slot_id,
                           !.tuple_id = mapping.from_tuple_id]
    ELSE IF in_filter.tuple_id = mapping.from_tuple_id
            /\ in_filter.slot_id = mapping.from_slot_id
    THEN [in_filter EXCEPT !.slot_id = mapping.to_slot_id, !.tuple_id = mapping.to_tuple_id]
    ELSE in_filter
RewriteOne(in_filter, mapping) ==
    IF ~is_bound(in_filter, {mapping.to_tuple_id}) THEN in_filter
    ELSE IF in_filter.slot_id = mapping.to_slot_id
    THEN [in_filter EXCEPT !.slot_id = mapping.from_slot_id,
                           !.tuple_id = mapping.from_tuple_id]
    ELSE in_filter

\* rewrite_in_filters: the mappings in list order, each applied to every filter
RewriteLoopOnce(in_filters, mappings, n) ==
    [j \in 1 .. Len(in_filters) |->
        LET hits == {m \in n .. Len(mappings) : RewriteOne(in_filters[j], mappings[m]) # in_filters[j]}
        IN  IF hits = {} THEN in_filters[j]
            ELSE RewriteOne(in_filters[j], mappings[CHOOSE m \in hits : \A x \in hits : m <= x])]
RECURSIVE RewriteLoop(_, _, _)
RewriteLoop(in_filters, mappings, n) ==
    IF n > Len(mappings) THEN in_filters
    ELSE RewriteLoop([j \in 1 .. Len(in_filters) |-> RewriteOne(in_filters[j], mappings[n])],
                     mappings, n + 1)

rewrite_in_filters(in_filters, mappings) == RewriteLoop(in_filters, mappings, 1)

\* a collector with any IN-filters, about to be rewritten with any mapping list
RwInit ==
    /\ rw_in_filters \in SeqsUpTo({InFilter(b[1], b[2], {}) : b \in Bindings}, MaxFilters)
    /\ rw_mappings \in SeqsUpTo({TupleSlotMapping(from, to) : from \in Bindings, to \in Bindings},
                                MaxMappings)
    /\ rw_history = <<rw_in_filters>>
    /\ rw_bloom_filters \in {<<>>, [j \in 1 .. NumDescs |-> j]}

\* one call of rewrite_in_filters with the mapping list
Rewrite ==
    /\ Len(rw_history) <= MaxRewrites
    /\ rw_in_filters' = rewrite_in_filters(rw_in_filters, rw_mappings)
    /\ rw_history' = Append(rw_history, rw_in_filters')
    /\ UNCHANGED <<rw_mappings, rw_bloom_filters>>

RwNext == Rewrite /\ UNCHANGED <<refVars, hubVars, mergerVars, sinkVars>>

\* no collector is being rewritten
RwIdle ==
    /\ rw_in_filters = <<>>
    /\ rw_mappings = <<>>
    /\ rw_history = <<>>
    /\ rw_bloom_filters = <<>>

\* ============================================================================
\* OlapTableSink: mark_as_failed, is_failed_channel, has_intolerable_failure
\* ============================================================================

\* the ids of the backend nodes the sink has a NodeChannel to
NodeIds == 1 .. NumNodes

\* TWriteQuorumType
WriteQuorumTypes == {"ALL", "ONE", "MAJORITY"}

\* size >= n for a size_t size and an int n: n is converted to size_t, a negative
\* one to a value above every size a set can have
SizeGeInt(size, n) == IF n < 0 THEN FALSE ELSE size >= n

\* OlapTableSink::is_failed_channel
is_failed_channel(node_id) == Cardinality(failed_channels \cap {node_id}) # 0

\* OlapTableSink::has_intolerable_failure
has_intolerable_failure_half ==
    IF write_quorum_type = "ALL" THEN Cardinality(failed_channels) > 0
    ELSE IF write_quorum_type = "ONE" THEN SizeGeInt(Cardinality(failed_channels), num_repicas)
    ELSE SizeGeInt(Cardinality(failed_channels), num_repicas \div 2)
has_intolerable_failure ==
    IF write_quorum_type = "ALL" THEN Cardinality(failed_channels) > 0
    ELSE IF write_quorum_type = "ONE" THEN SizeGeInt(Cardinality(failed_channels), num_repicas)
    ELSE SizeGeInt(Cardinality(failed_channels), (num_repicas + 1) \div 2)

\* a sink as constructed: the default member initialisers
SinkIdle ==
    /\ failed_channels = {}
    /\ num_repicas = -1
    /\ write_quorum_type = "MAJORITY"

\* a sink of a table with any replication number and any write quorum, no channel
\* having failed yet
SinkInit ==
    /\ failed_channels = {}
    /\ num_repicas \in 1 .. MaxReplicas
    /\ write_quorum_type \in WriteQuorumTypes

\* OlapTableSink::mark_as_failed on the channel of node_id
mark_as_failed(node_id) ==
    /\ failed_channels' = failed_channels \cup {node_id}
    /\ UNCHANGED <<num_repicas, write_quorum_type>>

SinkNext ==
    \E node_id \in NodeIds :
        mark_as_failed(node_id) /\ UNCHANGED <<refVars, hubVars, mergerVars, rwVars>>

\* ============================================================================
\* PartialRuntimeFilterMerger
\* ============================================================================

\* a JoinRuntimeFilter*: nullptr, or a bloom filter initialised for row_count rows
\* into which the key columns of the builders in filled have been inserted
BloomFilter(n) == [nil |-> FALSE, row_count |-> n, filled |-> {}]
NullBloomFilter == [nil |-> TRUE, row_count |-> 0, filled |-> {}]

\* a RuntimeFilterBuildDescriptor as plan construction leaves it
Descriptor(consumer, remote, creatable) ==
    [has_consumer |-> consumer, has_remote_targets |-> remote, creatable |-> creatable,
     is_pipeline |-> FALSE, runtime_filter |-> NullBloomFilter]

\* RuntimeBloomFilterBuildParam; column_nil stands for column == nullptr
BuildParam(eq_null, column_nil, ht) ==
    [eq_null |-> eq_null, column_nil |-> column_nil, ht_row_count |-> ht]

\* Predicate::merge on two IN-predicates: the left one takes the union of the keys
PredicateMerge(total, other) == [total EXCEPT !.keys = total.keys \cup other.keys]

\* merge_in_filters, the first loop: squeeze the lists of the non-empty hash tables
\* to the front; st = [v, k, num_rows, can]
RECURSIVE SqueezeLoopNoMove(_, _, _)
SqueezeLoopNoMove(i, hts, st) ==
    IF i >= Cardinality(DOMAIN hts) THEN st
    ELSE IF hts[i] = 0 THEN SqueezeLoopNoMove(i + 1, hts, st)
    ELSE IF st.v[i] = <<>> THEN [st EXCEPT !.can = FALSE]
    ELSE SqueezeLoopNoMove(i + 1, hts,
                           [v |-> st.v, k |-> st.k + 1,
                            num_rows |-> Max(st.num_rows, hts[i]), can |-> st.can])
RECURSIVE SqueezeLoop(_, _, _)
SqueezeLoop(i, hts, st) ==
    IF i >= Cardinality(DOMAIN hts) THEN st
    ELSE IF hts[i] = 0 THEN SqueezeLoop(i + 1, hts, st)
    ELSE IF st.v[i] = <<>> THEN [st EXCEPT !.can = FALSE]
    ELSE LET k == st.k + 1
             v == IF k < i THEN [st.v EXCEPT ![k] = st.v[i], ![i] = <<>>] ELSE st.v
         IN  SqueezeLoop(i + 1, hts,
                         [v |-> v, k |-> k, num_rows |-> Max(st.num_rows, hts[i]),
                          can |-> st.can])

\* merge_in_filters, the second loop: merge list i = 1..k into list 0, position by
\* position; mfail is the set of <<i, position>> at which Predicate::merge fails
RECURSIVE MergeLoopSkipNull(_, _, _, _, _)
MergeLoopSkipNull(i, p, v, k, mfail) ==
    IF i > k THEN [v |-> v, status |-> "ok"]
    ELSE IF p > Len(v[0]) THEN MergeLoopSkipNull(i + 1, 1, v, k, mfail)
    ELSE IF v[0][p].nil \/ v[i][p].nil
         THEN MergeLoopSkipNull(i, p + 1, v, k, mfail)
    ELSE IF <<i, p>> \in mfail THEN [v |-> v, status |-> "error"]
    ELSE MergeLoopSkipNull(i, p + 1, [v EXCEPT ![0][p] = PredicateMerge(v[0][p], v[i][p])],
                           k, mfail)
RECURSIVE MergeLoop(_, _, _, _, _)
MergeLoop(i, p, v, k, mfail) ==
    IF i > k THEN [v |-> v, status |-> "ok"]
    ELSE IF p > Len(v[0]) THEN MergeLoop(i + 1, 1, v, k, mfail)
    ELSE IF v[0][p].nil \/ v[i][p].nil
         THEN MergeLoop(i, p + 1, [v EXCEPT ![0][p] = NullInFilter], k, mfail)
    ELSE IF <<i, p>> \in mfail THEN [v |-> v, status |-> "error"]
    ELSE MergeLoop(i, p + 1, [v EXCEPT ![0][p] = PredicateMerge(v[0][p], v[i][p])], k, mfail)

\* can_merge_in_filters && (num_rows <= 1024) && k >= 0
CanMergeNoRowLimit(st) == st.can /\ st.k >= 0
CanMergeByLimit(st) == st.can /\ st.num_rows <= limit /\ st.k >= 0
CanMerge(st) == st.can /\ st.num_rows <= InFilterRowLimit /\ st.k >= 0

\* merge_in_filters: the new _partial_in_filters and the Status returned
merge_in_filters_resize_k(hts, v, mfail) ==
    LET st == SqueezeLoop(0, hts, [v |-> v, k |-> -1, num_rows |-> 0, can |-> TRUE])
    IN  IF ~CanMerge(st)
        THEN [v |-> [st.v EXCEPT ![0] = <<>>], status |-> "ok"]
        ELSE LET resized == [i \in 0 .. Max(st.k - 1, 0) |-> st.v[i]]
                 m == MergeLoop(1, 1, resized, st.k - 1, mfail)
             IN  IF m.status = "error" THEN m
                 ELSE [v |-> [m.v EXCEPT ![0] = SelectSeq(m.v[0], LAMBDA f : ~f.nil)],
                       status |-> "ok"]
merge_in_filters(hts, v, mfail) ==
    LET st == SqueezeLoop(0, hts, [v |-> v, k |-> -1, num_rows |-> 0, can |-> TRUE])
    IN  IF ~CanMerge(st)
        THEN [v |-> [st.v EXCEPT ![0] = <<>>], status |-> "ok"]
        ELSE LET resized == [i \in 0 .. st.k |-> st.v[i]]
                 m == MergeLoop(1, 1, resized, st.k, mfail)
             IN  IF m.status = "error" THEN m
                 ELSE [v |-> [m.v EXCEPT ![0] = SelectSeq(m.v[0], LAMBDA f : ~f.nil)],
                       status |-> "ok"]

\* merge_bloom_filters, row_count: the sum of _ht_row_counts from index i on
RECURSIVE SumRowsMax(_, _)
SumRowsMax(hts, i) ==
    IF i >= Cardinality(DOMAIN hts) THEN 0 ELSE Max(hts[i], SumRowsMax(hts, i + 1))
RECURSIVE SumRows(_, _)
SumRows(hts, i) == IF i >= Cardinality(DOMAIN hts) THEN 0 ELSE hts[i] + SumRows(hts, i + 1)

\* merge_bloom_filters, the body of the first loop for one descriptor
InstallFilterLimitAll(desc, row_count, lim) ==
    LET d == [desc EXCEPT !.is_pipeline = TRUE]
    IN  IF ~d.has_consumer THEN d
        ELSE IF row_count > lim THEN d
        ELSE IF ~d.creatable THEN d
        ELSE [d EXCEPT !.runtime_filter = BloomFilter(row_count)]
InstallFilter(desc, row_count, lim) ==
    LET d == [desc EXCEPT !.is_pipeline = TRUE]
    IN  IF ~d.has_consumer THEN d
        ELSE IF ~d.has_remote_targets /\ row_count > lim THEN d
        ELSE IF ~d.creatable THEN d
        ELSE [d EXCEPT !.runtime_filter = BloomFilter(row_count)]

\* merge_bloom_filters, the second loop: builder b, position j of its parameter
\* list; ffail is the set of <<b, j>> at which fill_runtime_bloom_filter fails
RECURSIVE FillLoopKeepOnFailure(_, _, _, _, _, _)
FillLoopKeepOnFailure(b, j, params, dlist, ds, ffail) ==
    IF b >= Cardinality(DOMAIN params) THEN ds
    ELSE IF j > Len(params[b]) THEN FillLoopKeepOnFailure(b + 1, 1, params, dlist, ds, ffail)
    ELSE IF ds[dlist[j]].runtime_filter.nil \/ params[b][j].column_nil
         THEN FillLoopKeepOnFailure(b, j + 1, params, dlist, ds, ffail)
    ELSE IF <<b, j>> \in ffail
         THEN FillLoopKeepOnFailure(b, j + 1, params, dlist, ds, ffail)
    ELSE FillLoopKeepOnFailure(b, j + 1, params, dlist,
                               [ds EXCEPT ![dlist[j]].runtime_filter.filled = @ \cup {b}],
                               ffail)
RECURSIVE FillLoop(_, _, _, _, _, _)
FillLoop(b, j, params, dlist, ds, ffail) ==
    IF b >= Cardinality(DOMAIN params) THEN ds
    ELSE IF j > Len(params[b]) THEN FillLoop(b + 1, 1, params, dlist, ds, ffail)
    ELSE IF ds[dlist[j]].runtime_filter.nil \/ params[b][j].column_nil
         THEN FillLoop(b, j + 1, params, dlist, ds, ffail)
    ELSE IF <<b, j>> \in ffail
         THEN FillLoop(b, j + 1, params, dlist,
                       [ds EXCEPT ![dlist[j]].runtime_filter = NullBloomFilter], ffail)
    ELSE FillLoop(b, j + 1, params, dlist,
                  [ds EXCEPT ![dlist[j]].runtime_filter.filled = @ \cup {b}], ffail)

\* merge_bloom_filters: the descriptor objects afterwards (the Status is always OK)
merge_bloom_filters(hts, params, dlist, ds, lim, ffail) ==
    IF Cardinality(DOMAIN params) = 0 THEN ds
    ELSE LET row_count == SumRows(hts, 0)
             listed == {dlist[j] : j \in 1 .. Len(dlist)}
             installed == [d \in DOMAIN ds |->
                             IF d \in listed THEN InstallFilter(ds[d], row_count, lim)
                             ELSE ds[d]]
         IN  FillLoop(0, 1, params, dlist, installed, ffail)

\* get_total_in_filters / get_total_bloom_filters
get_total_in_filters == partial_in_filters[0]
get_total_bloom_filters == bloom_filter_descriptors

\* the test of add_partial_filters on the value the decrement returned
IsLastBuilderPrefix(pre) == pre - 1 = 1
IsLastBuilder(pre) == pre = 1

\* the list of descriptor pointers every builder passes (identical across builders)
DescList == [j \in 1 .. NumDescs |-> j]

\* row counts around the threshold of merge_in_filters
RowCounts == {0, InFilterRowLimit, InFilterRowLimit + 1}

\* the key set of builder i's IN-predicate on join key p: a key only this builder
\* has and a key every builder has
KeysOf(i, p) == {<<p, i>>, <<p, -1>>}

\* builder i's list with a predicate for every join key
FullInList(i) == [p \in 1 .. NumJoinKeys |-> InFilter(0, p, KeysOf(i, p))]

\* builder i's list with nullptr in place of one predicate
HoledInList(i) == [FullInList(i) EXCEPT ![1 + (i % NumJoinKeys)] = NullInFilter]

\* the IN-filter lists a builder may post: an empty hash table yields no list; a
\* table within the threshold none, a full one or one with a nullptr; a table above
\* the threshold none or a full one
InListsOf(i, ht) ==
    IF ht = 0 THEN {<<>>}
    ELSE IF ht <= InFilterRowLimit THEN {<<>>, FullInList(i), HoledInList(i)}
    ELSE {<<>>, FullInList(i)}

\* the bloom parameter lists a builder may post: one entry per descriptor
ParamListsOf(ht, nils) ==
    {[j \in 1 .. NumDescs |-> BuildParam(FALSE, j \in absent, ht)] : absent \in nils}

MergerStart ==
    /\ num_active_builders = NumBuilders
    /\ ht_row_counts = [i \in Builders |-> 0]
    /\ partial_in_filters = [i \in Builders |-> <<>>]
    /\ partial_bloom_filter_build_params = [i \in Builders |-> <<>>]
    /\ bloom_filter_descriptors = <<>>
    /\ bpc = [i \in Builders |-> "idle"]
    /\ ret = [i \in Builders |-> "none"]
    /\ merge_in_status = "none"
    /\ merge_bloom_status = "none"
    /\ fill_failures = {}

\* the merger with every IN-filter input, one descriptor profile and full parameters
MergerInitIn ==
    /\ MergerStart
    /\ limit = InFilterRowLimit
    /\ descs = [d \in 1 .. NumDescs |-> Descriptor(TRUE, TRUE, TRUE)]
    /\ arg_ht \in [Builders -> RowCounts]
    /\ arg_in \in {f \in [Builders -> UNION {InListsOf(i, ht) : i \in Builders, ht \in RowCounts}] :
                     \A i \in Builders : f[i] \in InListsOf(i, arg_ht[i])}
    /\ arg_params = [i \in Builders |->
                       [j \in 1 .. NumDescs |-> BuildParam(FALSE, FALSE, arg_ht[i])]]

\* the descriptor profiles: remote consumer, local consumer only, no consumer, and a
\* build type create_runtime_bloom_filter has no filter for
DescProfiles == <<Descriptor(TRUE, TRUE, TRUE), Descriptor(TRUE, FALSE, TRUE),
                  Descriptor(FALSE, FALSE, TRUE), Descriptor(TRUE, TRUE, FALSE)>>

\* the descriptor lists of the model: one profile throughout, or the profiles in
\* turn from some first one
DescConfigs ==
    {[d \in 1 .. NumDescs |-> DescProfiles[t]] : t \in 1 .. Len(DescProfiles)}
    \cup {[d \in 1 .. NumDescs |-> DescProfiles[1 + ((t + d) % Len(DescProfiles))]]
          : t \in 1 .. Len(DescProfiles)}

\* what a builder posts in the bloom-filter model: <<row count, IN-list, parameters>>
BloomInputsOf(i) ==
    {<<0, <<>>, ht0>> : ht0 \in ParamListsOf(0, {{}})}
    \cup {<<InFilterRowLimit, FullInList(i), pl>>
          : pl \in ParamListsOf(InFilterRowLimit, {{}, {1 + (i % NumDescs)}})}
    \cup {<<InFilterRowLimit + 1, <<>>, pl>> : pl \in ParamListsOf(InFilterRowLimit + 1, {{}})}

\* the merger with every descriptor list and bloom-filter input of the model
MergerInitBloom ==
    /\ MergerStart
    /\ limit = InFilterRowLimit
    /\ descs \in DescConfigs
    /\ \E inputs \in [Builders -> UNION {BloomInputsOf(i) : i \in Builders}] :
          /\ \A i \in Builders : inputs[i] \in BloomInputsOf(i)
          /\ arg_ht = [i \in Builders |-> inputs[i][1]]
          /\ arg_in = [i \in Builders |-> inputs[i][2]]
          /\ arg_params = [i \in Builders |-> inputs[i][3]]

\* the limits a merger may be constructed with: none, the IN-filter threshold, twice that
LimitChoices == {0, InFilterRowLimit, 2 * InFilterRowLimit}

\* mergers constructed with any of the limits, for any descriptor list, whose
\* builders post a full IN-list for every non-empty hash table
MergerInitLimit ==
    /\ MergerStart
    /\ limit \in LimitChoices
    /\ descs \in DescConfigs
    /\ arg_ht \in [Builders -> RowCounts]
    /\ arg_in = [i \in Builders |-> IF arg_ht[i] = 0 THEN <<>> ELSE FullInList(i)]
    /\ arg_params = [i \in Builders |->
                       [j \in 1 .. NumDescs |-> BuildParam(FALSE, FALSE, arg_ht[i])]]

\* a merger no builder calls
MergerIdle ==
    /\ MergerStart
    /\ limit = InFilterRowLimit
    /\ descs = [d \in 1 .. NumDescs |-> Descriptor(TRUE, TRUE, TRUE)]
    /\ arg_ht = [i \in Builders |-> 0]
    /\ arg_in = [i \in Builders |-> <<>>]
    /\ arg_params = [i \in Builders |-> <<>>]

\* the merger of a join whose builders post full IN-lists or have empty hash tables
MergerInitCancel ==
    /\ MergerStart
    /\ limit = InFilterRowLimit
    /\ descs = [d \in 1 .. NumDescs |-> Descriptor(TRUE, TRUE, TRUE)]
    /\ arg_ht \in [Builders -> {0, InFilterRowLimit}]
    /\ arg_in = [i \in Builders |-> IF arg_ht[i] = 0 THEN <<>> ELSE FullInList(i)]
    /\ arg_params = [i \in Builders |->
                       [j \in 1 .. NumDescs |-> BuildParam(FALSE, FALSE, arg_ht[i])]]

\* the driver of builder idx is cancelled before it posts: it never calls
\* add_partial_filters
Cancel(idx) ==
    /\ bpc[idx] = "idle"
    /\ bpc' = [bpc EXCEPT ![idx] = "cancelled"]
    /\ UNCHANGED <<limit, num_active_builders, ht_row_counts, partial_in_filters,
                   partial_bloom_filter_build_params, bloom_filter_descriptors, descs,
                   arg_ht, arg_in, arg_params, ret, merge_in_status, merge_bloom_status,
                   fill_failures>>

\* add_partial_filters, the three stores into the builder's own slot
WriteSlot(idx) ==
    /\ bpc[idx] = "idle"
    /\ ht_row_counts' = [ht_row_counts EXCEPT ![idx] = arg_ht[idx]]
    /\ partial_in_filters' = [partial_in_filters EXCEPT ![idx] = arg_in[idx]]
    /\ partial_bloom_filter_build_params' =
           [partial_bloom_filter_build_params EXCEPT ![idx] = arg_params[idx]]
    /\ bpc' = [bpc EXCEPT ![idx] = "written"]
    /\ UNCHANGED <<limit, num_active_builders, bloom_filter_descriptors, descs, arg_ht, arg_in,
                   arg_params, ret, merge_in_status, merge_bloom_status, fill_failures>>

\* add_partial_filters, 1 == _num_active_builders--; the others return false
Decrement(idx) ==
    /\ bpc[idx] = "written"
    /\ num_active_builders' = num_active_builders - 1
    /\ IF IsLastBuilder(num_active_builders)
       THEN /\ bpc' = [bpc EXCEPT ![idx] = "merging"]
            /\ ret' = ret
       ELSE /\ bpc' = [bpc EXCEPT ![idx] = "returned"]
            /\ ret' = [ret EXCEPT ![idx] = "false"]
    /\ UNCHANGED <<limit, ht_row_counts, partial_in_filters, partial_bloom_filter_build_params,
                   bloom_filter_descriptors, descs, arg_ht, arg_in, arg_params,
                   merge_in_status, merge_bloom_status, fill_failures>>

\* what the last builder returns after the two merges
MergeResult(in_status, bloom_status) == "true"

\* add_partial_filters, the branch of the last builder: take the descriptors, run
\* merge_in_filters and merge_bloom_filters, return true
Merge(idx, mfail, ffail) ==
    /\ bpc[idx] = "merging"
    /\ bloom_filter_descriptors' = DescList
    /\ LET m == merge_in_filters(ht_row_counts, partial_in_filters, mfail) IN
        /\ partial_in_filters' = m.v
        /\ merge_in_status' = m.status
        /\ merge_bloom_status' = "ok"
        /\ ret' = [ret EXCEPT ![idx] = MergeResult(m.status, "ok")]
    /\ descs' = merge_bloom_filters(ht_row_counts, partial_bloom_filter_build_params,
                                    DescList, descs, limit, ffail)
    /\ fill_failures' = ffail
    /\ bpc' = [bpc EXCEPT ![idx] = "returned"]
    /\ UNCHANGED <<limit, num_active_builders, ht_row_counts,
                   partial_bloom_filter_build_params, arg_ht, arg_in, arg_params>>

\* the builder that got merged = true makes the collector of the totals and hands it
\* to RuntimeFilterHub::set_collector
PublishCollector(idx) ==
    /\ ret[idx] = "true"
    /\ set_collector_move(MergerNode,
                          Collector(CHOOSE a \in FreeAddrs : TRUE,
                                    get_total_in_filters, get_total_bloom_filters))

\* the places at which a predicate merge may fail: none, or one <<list, position>>
MergeFailChoices == {{}} \cup {{<<i, p>>} : i \in 1 .. NumBuilders - 1, p \in 1 .. NumJoinKeys}

\* the places at which filling a bloom filter may fail: none, one
\* <<builder, position>>, or every position of one builder
FillFailChoices ==
    LET pairs == Builders \X (1 .. NumDescs)
    IN  {{}} \cup {{x} : x \in pairs} \cup {{b} \X (1 .. NumDescs) : b \in Builders}

BloomNext ==
    \/ \E idx \in Builders : WriteSlot(idx) /\ UNCHANGED <<refVars, hubVars, rwVars, sinkVars>>
    \/ \E idx \in Builders : Decrement(idx) /\ UNCHANGED <<refVars, hubVars, rwVars, sinkVars>>
    \/ \E idx \in Builders : \E ffail \in FillFailChoices :
          Merge(idx, {}, ffail) /\ UNCHANGED <<refVars, hubVars, rwVars, sinkVars>>

Init == RefInit /\ HubBuilt /\ MergerInitIn /\ RwIdle /\ SinkIdle

Next ==
    \/ \E idx \in Builders : WriteSlot(idx) /\ UNCHANGED <<refVars, hubVars, rwVars, sinkVars>>
    \/ \E idx \in Builders : Decrement(idx) /\ UNCHANGED <<refVars, hubVars, rwVars, sinkVars>>
    \/ \E idx \in Builders : \E mfail \in MergeFailChoices :
          Merge(idx, mfail, {}) /\ UNCHANGED <<refVars, hubVars, rwVars, sinkVars>>
    \/ \E idx \in Builders : PublishCollector(idx) /\ UNCHANGED <<refVars, mergerVars, rwVars, sinkVars>>
    \/ set_collector_store(MergerNode) /\ UNCHANGED <<refVars, mergerVars, rwVars, sinkVars>>
    \/ \E r \in Readers : ReadHolder(r, MergerNode) /\ UNCHANGED <<refVars, mergerVars, rwVars, sinkVars>>

Spec == Init /\ [][Next]_vars

RefNext ==
    \/ \E o \in Operators : PrepareFetchSub(o) /\ UNCHANGED <<hubVars, mergerVars, rwVars, sinkVars>>
    \/ \E o \in Operators : WrappedPrepare(o) /\ UNCHANGED <<hubVars, mergerVars, rwVars, sinkVars>>
    \/ \E o \in Operators : WrappedOpen(o) /\ UNCHANGED <<hubVars, mergerVars, rwVars, sinkVars>>
    \/ \E o \in Operators : CloseFetchSub(o) /\ UNCHANGED <<hubVars, mergerVars, rwVars, sinkVars>>
    \/ \E o \in Operators : WrappedClose(o) /\ UNCHANGED <<hubVars, mergerVars, rwVars, sinkVars>>

HubNext ==
    \/ \E id \in PlanNodeIds : add_holder(id) /\ UNCHANGED <<refVars, mergerVars, rwVars, sinkVars>>
    \/ FinishPlanConstruction /\ UNCHANGED <<refVars, mergerVars, rwVars, sinkVars>>
    \/ \E id \in PlanNodeIds : \E a \in FreeAddrs :
          set_collector_move(id, Collector(a, <<>>, <<>>))
          /\ UNCHANGED <<refVars, mergerVars, rwVars, sinkVars>>
    \/ \E id \in PlanNodeIds : set_collector_store(id) /\ UNCHANGED <<refVars, mergerVars, rwVars, sinkVars>>
    \/ \E r \in Readers : \E id \in PlanNodeIds :
          ReadHolder(r, id) /\ UNCHANGED <<refVars, mergerVars, rwVars, sinkVars>>

\* the builders, any of which may be cancelled before posting, and the hub
CancelNext ==
    \/ \E idx \in Builders : Cancel(idx) /\ UNCHANGED <<refVars, hubVars, rwVars, sinkVars>>
    \/ \E idx \in Builders : WriteSlot(idx) /\ UNCHANGED <<refVars, hubVars, rwVars, sinkVars>>
    \/ \E idx \in Builders : Decrement(idx) /\ UNCHANGED <<refVars, hubVars, rwVars, sinkVars>>
    \/ \E idx \in Builders : Merge(idx, {}, {}) /\ UNCHANGED <<refVars, hubVars, rwVars, sinkVars>>
    \/ \E idx \in Builders : PublishCollector(idx) /\ UNCHANGED <<refVars, mergerVars, rwVars, sinkVars>>
    \/ set_collector_store(MergerNode) /\ UNCHANGED <<refVars, mergerVars, rwVars, sinkVars>>
    \/ \E r \in Readers : ReadHolder(r, MergerNode) /\ UNCHANGED <<refVars, mergerVars, rwVars, sinkVars>>

InitCancel == RefInit /\ HubBuilt /\ MergerInitCancel /\ RwIdle /\ SinkIdle
SpecCancel == InitCancel /\ [][CancelNext]_vars

\* the builders of mergers that differ in their limit
LimitNext ==
    \/ \E idx \in Builders : WriteSlot(idx) /\ UNCHANGED <<refVars, hubVars, rwVars, sinkVars>>
    \/ \E idx \in Builders : Decrement(idx) /\ UNCHANGED <<refVars, hubVars, rwVars, sinkVars>>
    \/ \E idx \in Builders : Merge(idx, {}, {}) /\ UNCHANGED <<refVars, hubVars, rwVars, sinkVars>>

InitLimit == RefInit /\ HubBuilt /\ MergerInitLimit /\ RwIdle /\ SinkIdle
SpecLimit == InitLimit /\ [][LimitNext]_vars

InitSink == RefInit /\ HubBuilt /\ MergerIdle /\ RwIdle /\ SinkInit
SpecSink == InitSink /\ [][SinkNext]_vars

InitRef == RefInit /\ HubBuilt /\ MergerIdle /\ RwIdle /\ SinkIdle
SpecRef == InitRef /\ [][RefNext]_vars

InitBloom == RefInit /\ HubBuilt /\ MergerInitBloom /\ RwIdle /\ SinkIdle
SpecBloom == InitBloom /\ [][BloomNext]_vars

InitRewrite == RefInit /\ HubBuilt /\ MergerIdle /\ RwInit /\ SinkIdle
SpecRewrite == InitRewrite /\ [][RwNext]_vars

InitHub == RefInit /\ HubInit /\ MergerIdle /\ RwIdle /\ SinkIdle
SpecHub == InitHub /\ [][HubNext]_vars

\* plan construction, the producers' set_collector calls and the consumers'
\* gather_holders calls
GatherNext ==
    \/ \E id \in PlanNodeIds : add_holder(id) /\ UNCHANGED <<refVars, mergerVars, rwVars, sinkVars>>
    \/ FinishPlanConstruction /\ UNCHANGED <<refVars, mergerVars, rwVars, sinkVars>>
    \/ \E id \in PlanNodeIds :
          set_collector_move(id, Collector(CHOOSE a \in FreeAddrs : TRUE, <<>>, <<>>))
          /\ UNCHANGED <<refVars, mergerVars, rwVars, sinkVars>>
    \/ \E id \in PlanNodeIds : set_collector_store(id) /\ UNCHANGED <<refVars, mergerVars, rwVars, sinkVars>>
    \/ \E ids \in SUBSET PlanNodeIds :
          GatherHolders(ids) /\ UNCHANGED <<refVars, mergerVars, rwVars, sinkVars>>

InitGather == RefInit /\ HubInit /\ MergerIdle /\ RwIdle /\ SinkIdle
SpecGather == InitGather /\ [][GatherNext]_vars

\* ============================================================================
\* Properties
\* ============================================================================

Decremented(i) == bpc[i] \in {"merging", "returned"}
AllReturned == \A i \in Builders : bpc[i] = "returned"
Merged == merge_in_status # "none"
MaxPostedRows == CHOOSE n \in {arg_ht[i] : i \in Builders} : \A i \in Builders : arg_ht[i] <= n

\* the keys of the predicates of an IN-filter list
KeysIn(list) == UNION {list[p].keys : p \in {q \in 1 .. Len(list) : ~list[q].nil}}

\* C1 (rendezvous): at any time at most one call is merging or has returned
\* merged = true; the call whose decrement comes when every other builder has
\* already decremented is the one that goes on to merge and returns true, every
\* other call returns false; once all N calls returned exactly one returned true.
C1_Rendezvous ==
    /\ [](/\ Cardinality({i \in Builders : bpc[i] = "merging" \/ ret[i] = "true"}) <= 1
          /\ AllReturned => Cardinality({i \in Builders : ret[i] = "true"}) = 1)
    /\ [][\A idx \in Builders :
            /\ (bpc[idx] = "written" /\ bpc'[idx] # "written") =>
                  /\ (bpc'[idx] = "merging") <=> (\A j \in Builders \ {idx} : Decremented(j))
                  /\ (bpc'[idx] = "returned") => (ret'[idx] = "false")
            /\ (bpc[idx] = "merging" /\ bpc'[idx] = "returned") => (ret'[idx] = "true")]_vars

\* C1 witness: builder 0 decremented last and got merged = true, the others false
C1_Witness ==
    /\ AllReturned
    /\ ret[0] = "true"
    /\ \A i \in Builders \ {0} : ret[i] = "false"

\* C2 (at most once): with every operator calling prepare at most once and close
\* at most once, in any interleaving, the wrapped prepare, the wrapped open and the
\* wrapped close are each invoked at most once.
C2_AtMostOnce ==
    /\ rf_prepare_calls <= 1
    /\ rf_open_calls <= 1
    /\ rf_close_calls <= 1

\* C2 witness: all N prepares and all N closes returned, the wrapped prepare, open
\* and close having run
C2_Witness ==
    /\ \A o \in Operators : op_prepare[o] \in {"ret_ok", "ret_error"} /\ op_close[o] = "ret"
    /\ rf_prepare_calls = 1
    /\ rf_open_calls = 1
    /\ rf_close_calls = 1

\* C3 (exactly-once close), as claimed: once at least one prepare and all N closes
\* have returned (no prepare being under way), the wrapped close has run exactly
\* once, in the N-th close call.
C3_ExactlyOnceClose ==
    ( /\ \E o \in Operators : op_prepare[o] \in {"ret_ok", "ret_error"}
      /\ \A o \in Operators : op_prepare[o] \in {"idle", "ret_ok", "ret_error"}
      /\ \A o \in Operators : op_close[o] = "ret" )
    => (rf_close_calls = 1 /\ close_trigger = NumOperators)

\* C4 (IN-filter soundness): after the merge, if some builder with a non-empty hash
\* table posted an empty IN-filter list, or the largest posted row count exceeds
\* 1024, get_total_in_filters() is empty.
C4_InFilterSoundness ==
    ( /\ Merged
      /\ \/ \E i \in Builders : arg_ht[i] > 0 /\ arg_in[i] = <<>>
         \/ MaxPostedRows > InFilterRowLimit )
    => get_total_in_filters = <<>>

\* C4 witness: every builder posted a full list, only the row count of one of them
\* is above the threshold, and the merged list is empty
C4_Witness ==
    /\ Merged
    /\ \A i \in Builders : arg_in[i] = FullInList(i)
    /\ Cardinality({i \in Builders : arg_ht[i] > InFilterRowLimit}) = 1
    /\ get_total_in_filters = <<>>

C8_MergeErrorPropagated ==
    merge_in_status = "error" => \A i \in Builders : ret[i] # "true"

\* C10 (publication ordering): a reader that got a non-null collector from the
\* merger's holder got it when every builder had posted its slot and returned and
\* both merges were over, and what it read are the merger's totals.
C10_PublicationOrdering ==
    \A r \in Readers :
        (reads[r].id = MergerNode /\ reads[r].addr # 0) =>
            /\ AllReturned
            /\ ht_row_counts = arg_ht
            /\ merge_in_status # "none" /\ merge_bloom_status # "none"
            /\ reads[r].collector.in_filters = get_total_in_filters
            /\ reads[r].collector.bloom_filters = get_total_bloom_filters

\* C10 witness: a reader holds a published collector with a non-empty merged list
C10_Witness ==
    \E r \in Readers :
        /\ reads[r].addr # 0
        /\ reads[r].collector.in_filters # <<>>
        /\ reads[r].collector.in_filters = get_total_in_filters

\* the mapping list rebinds to no pair that it also rebinds from
FromToDisjoint(mappings) ==
    \A m \in 1 .. Len(mappings) : \A n \in 1 .. Len(mappings) :
        <<mappings[m].from_tuple_id, mappings[m].from_slot_id>>
            # <<mappings[n].to_tuple_id, mappings[n].to_slot_id>>

\* C6 (publish once): whatever a reader got from get_collector is null or the
\* pointer to the collector set_collector was given for that holder, and no
\* get_collector returned null on a holder after one had returned non-null on it.
C6_PublishOnce ==
    /\ \A r \in Readers :
          reads[r].addr # 0 =>
              /\ set_pc[reads[r].id] # "idle"
              /\ reads[r].addr = holders[reads[r].id].collector_ownership.addr
    /\ ~null_after_ready

\* C6 witness: a reader holds the pointer set_collector installed
C6_Witness ==
    \E r \in Readers :
        /\ reads[r].addr # 0
        /\ reads[r].id \in ready_seen
        /\ reads[r].addr = holders[reads[r].id].collector_ownership.addr
        /\ set_pc[reads[r].id] = "stored"

\* C7 (rewrite idempotence), as claimed: for any mapping list, the filters after
\* two calls of rewrite_in_filters are the filters after one call.
C7_IdempotentAsClaimed ==
    Len(rw_history) >= 3 => rw_history[3] = rw_history[2]

\* C7 amended: for a mapping list in which no (from_tuple, from_slot) is also the
\* (to_tuple, to_slot) of a mapping, the filters after two calls are the filters
\* after one call.
C7_IdempotentDisjoint ==
    (Len(rw_history) >= 3 /\ FromToDisjoint(rw_mappings)) => rw_history[3] = rw_history[2]

\* C7 witness: a disjoint mapping list rebound some filter in the first call and
\* the second call left the result as it was
C7_Witness ==
    /\ Len(rw_history) >= 3
    /\ FromToDisjoint(rw_mappings)
    /\ Len(rw_mappings) = MaxMappings
    /\ rw_history[2] # rw_history[1]
    /\ rw_history[3] = rw_history[2]

\* merge_bloom_filters gave the descriptor at position j a filter to fill
FilterInstalled(j) ==
    /\ descs[j].has_consumer
    /\ descs[j].has_remote_targets \/ SumRows(arg_ht, 0) <= limit
    /\ descs[j].creatable

\* filling the filter of the descriptor at position j failed for some builder
FillFailedAt(j) ==
    /\ FilterInstalled(j)
    /\ \E b \in Builders : <<b, j>> \in fill_failures /\ ~arg_params[b][j].column_nil

\* C9 (bloom best effort): after the merge, a descriptor for which filling failed
\* for some builder has no filter; a descriptor that was given a filter and for
\* which no fill failed has it, filled with the column of every builder that posted
\* one; and the merge reported success to the last builder.
C9_BloomBestEffort ==
    merge_bloom_status # "none" =>
        /\ merge_bloom_status = "ok"
        /\ \E i \in Builders : ret[i] = "true"
        /\ \A j \in 1 .. NumDescs :
              /\ FillFailedAt(j) => descs[j].runtime_filter.nil
              /\ (FilterInstalled(j) /\ ~FillFailedAt(j)) =>
                    /\ ~descs[j].runtime_filter.nil
                    /\ descs[j].runtime_filter.filled =
                           {b \in Builders : ~arg_params[b][j].column_nil}

\* C9 witness: filling failed for builder 0 at the first descriptor only, with the
\* other builders still to come; that descriptor has no filter and another one has
\* its filter with every builder's column in it
C9_Witness ==
    /\ merge_bloom_status = "ok"
    /\ fill_failures = {<<0, 1>>}
    /\ FillFailedAt(1)
    /\ \A b \in Builders : ~arg_params[b][1].column_nil
    /\ descs[1].runtime_filter.nil
    /\ \E j \in 1 .. NumDescs :
          /\ ~descs[j].runtime_filter.nil
          /\ descs[j].runtime_filter.filled = Builders

\* some builder has not called add_partial_filters
SomeBuilderMissing == \E i \in Builders : bpc[i] \in {"idle", "cancelled"}

\* C11 (missing builder): while fewer than N builders have called
\* add_partial_filters, and for ever if one of them is cancelled, no call has
\* returned merged = true, neither merge has run, nobody is merging and the
\* holder of the join is Empty.
C11_MissingBuilder ==
    SomeBuilderMissing =>
        /\ \A i \in Builders : ret[i] # "true" /\ bpc[i] # "merging"
        /\ merge_in_status = "none" /\ merge_bloom_status = "none"
        /\ bloom_filter_descriptors = <<>>
        /\ set_pc[MergerNode] = "idle"
        /\ ~is_ready(get_holder(MergerNode))
        /\ \A r \in Readers : reads[r].addr = 0

\* C11 witness: one builder was cancelled, all the others posted non-empty tables
\* and returned false, and the holder is Empty
C11_Witness ==
    /\ Cardinality({i \in Builders : bpc[i] = "cancelled"}) = 1
    /\ \A i \in Builders : bpc[i] # "cancelled" =>
          (bpc[i] = "returned" /\ ret[i] = "false" /\ ht_row_counts[i] > 0)
    /\ num_active_builders = 1
    /\ ~is_ready(get_holder(MergerNode))

\* C12 (per-id isolation): a holder is Ready exactly when set_collector has stored
\* into the holder of its id, a set_collector on one id leaves the holders of all
\* other ids as they were, and the vector gather_holders returned has one holder
\* per requested id, Empty ones included, each being the holder set_collector of
\* that id publishes into.
C12_PerIdIsolation ==
    /\ [](/\ \A id \in DOMAIN holders : is_ready(get_holder(id)) <=> set_pc[id] = "stored"
          /\ Len(gathered.holders) = Cardinality(gathered.ids)
          /\ \A id \in gathered.ids :
                /\ Cardinality({n \in 1 .. Len(gathered.holders)
                                  : gathered.holders[n] = HolderPtr(id)}) = 1
                /\ is_ready(HolderAt(HolderPtr(id))) <=> set_pc[id] = "stored")
    /\ [][\A id \in DOMAIN holders :
            set_pc'[id] = set_pc[id] => holders'[id] = holders[id]]_vars

\* C12 witness: three holders were gathered, of which one is Ready and one was
\* given its collector but is not Ready yet and one is untouched
C12_Witness ==
    /\ Cardinality(gathered.ids) >= 3
    /\ Len(gathered.holders) = Cardinality(gathered.ids)
    /\ \E a \in gathered.ids : \E b \in gathered.ids : \E c \in gathered.ids :
          /\ is_ready(HolderAt(HolderPtr(a)))
          /\ set_pc[b] = "owned" /\ ~is_ready(HolderAt(HolderPtr(b)))
          /\ set_pc[c] = "idle" /\ ~is_ready(HolderAt(HolderPtr(c)))

\* every slot holds what its builder posted
SlotsPosted ==
    /\ ht_row_counts = arg_ht
    /\ partial_in_filters = arg_in
    /\ partial_bloom_filter_build_params = arg_params

\* C13 (slot visibility): when the last decrementer is about to run the merges,
\* every builder has written its slot and every slot holds what its builder posted;
\* from then on no slot changes except by the merge itself, which only rewrites the
\* IN-filter lists.
C13_SlotVisibility ==
    /\ []((\E idx \in Builders : bpc[idx] = "merging") =>
            (SlotsPosted /\ \A i \in Builders : bpc[i] \in {"merging", "returned"}))
    /\ [][((\E idx \in Builders : bpc[idx] = "merging") \/ Merged) =>
            /\ ht_row_counts' = ht_row_counts
            /\ partial_bloom_filter_build_params' = partial_bloom_filter_build_params
            /\ partial_in_filters' # partial_in_filters =>
                  \E idx \in Builders : bpc[idx] = "merging" /\ bpc'[idx] = "returned"]_vars

\* C13 witness: the last decrementer is about to merge and finds in the slots the
\* distinct non-empty posts of all builders
C13_Witness ==
    /\ \E idx \in Builders : bpc[idx] = "merging"
    /\ SlotsPosted
    /\ \A i \in Builders : ht_row_counts[i] > 0 /\ partial_in_filters[i] = FullInList(i)
    /\ \E i \in Builders : ht_row_counts[i] # ht_row_counts[0]

PrepareReturned(o) == op_prepare[o] \in {"ret_ok", "ret_error"}
PrepareDecrements == Cardinality({o \in Operators : op_prepare[o] # "idle"})
CloseDecrements == Len(close_order)

\* C14 (prepare ordering), as claimed: when a prepare call that did not run the
\* wrapped prepare has returned to its caller, no wrapped prepare or open is still
\* to run or under way.
C14_PrepareOrdering ==
    \A o \in Operators : \A first \in Operators :
        (op_prepare[o] = "ret_ok" /\ first # o) =>
            op_prepare[first] \notin {"call_prepare", "call_open"}

C16_DeferredClose ==
    (early_closers = {} /\ ((\E o \in Operators : op_close[o] = "call_close") \/ rf_close_calls > 0))
    => /\ \A p \in Operators : PrepareReturned(p)
       /\ rf_prepare_calls = 1
       /\ \A p \in Operators : op_close[p] # "idle"

\* C16 witness: every operator closed after its prepare had returned, the wrapped
\* prepare and open succeeded and the wrapped close has run
C16_Witness ==
    /\ early_closers = {}
    /\ rf_open_calls = 1
    /\ \A o \in Operators : op_prepare[o] = "ret_ok"
    /\ rf_close_calls = 1

\* C17 (prepare failure handling): the prepare call whose decrement is the first
\* is the only one to invoke the wrapped prepare, and open after it; a failed
\* wrapped prepare returns the error without open being invoked, a failed open
\* returns the error; every other prepare call returns OK at once, invoking
\* nothing, whatever became of the initialization.
C17_PrepareFailure ==
    /\ [](/\ rf_prepare_calls <= 1 /\ rf_open_calls <= rf_prepare_calls
          /\ Cardinality({o \in Operators :
                            op_prepare[o] \in {"call_prepare", "call_open", "ret_error"}}) <= 1)
    /\ [][\A o \in Operators :
            /\ (op_prepare[o] = "idle" /\ op_prepare'[o] # "idle") =>
                  /\ rf_prepare_calls' = rf_prepare_calls /\ rf_open_calls' = rf_open_calls
                  /\ IF \A p \in Operators : op_prepare[p] = "idle"
                     THEN op_prepare'[o] = "call_prepare"
                     ELSE op_prepare'[o] = "ret_ok"
            /\ (op_prepare[o] = "call_prepare" /\ op_prepare'[o] # "call_prepare") =>
                  /\ rf_prepare_calls' = rf_prepare_calls + 1
                  /\ rf_open_calls' = rf_open_calls
                  /\ op_prepare'[o] \in {"call_open", "ret_error"}
            /\ (op_prepare[o] = "call_open" /\ op_prepare'[o] # "call_open") =>
                  /\ rf_open_calls' = rf_open_calls + 1
                  /\ op_prepare'[o] \in {"ret_ok", "ret_error"}
            /\ PrepareReturned(o) => op_prepare'[o] = op_prepare[o]]_vars

\* C17 witness: the wrapped prepare failed in the first call, open was never
\* invoked, and every other prepare call returned OK
C17_Witness ==
    /\ rf_prepare_calls = 1
    /\ rf_open_calls = 0
    /\ Cardinality({o \in Operators : op_prepare[o] = "ret_error"}) = 1
    /\ Cardinality({o \in Operators : op_prepare[o] = "ret_ok"}) = NumOperators - 1

\* the rows of all hash tables together, from what the builders passed
RECURSIVE RowsOver(_)
RowsOver(S) ==
    IF S = {} THEN 0
    ELSE LET i == CHOOSE x \in S : TRUE IN arg_ht[i] + RowsOver(S \ {i})
PostedRowsTotal == RowsOver(Builders)

\* some builder's column met a failing fill at position j
FillFailurePosted(j) ==
    \E b \in Builders : <<b, j>> \in fill_failures /\ ~arg_params[b][j].column_nil

\* C18 (bloom construction rule): after merge_bloom_filters every descriptor is
\* marked pipeline-originated; one without a consumer has no filter; one with a
\* consumer and no remote targets has no filter when the rows of all builders
\* together exceed the limit; one with a consumer and remote targets has a filter
\* whatever the limit, unless its creation or a fill failed.
C18_BloomConstruction ==
    merge_bloom_status # "none" =>
        \A j \in 1 .. NumDescs :
            /\ descs[j].is_pipeline
            /\ ~descs[j].has_consumer => descs[j].runtime_filter.nil
            /\ (descs[j].has_consumer /\ ~descs[j].has_remote_targets
                  /\ PostedRowsTotal > limit) => descs[j].runtime_filter.nil
            /\ (descs[j].has_consumer /\ descs[j].has_remote_targets
                  /\ descs[j].creatable /\ ~FillFailurePosted(j)) =>
                     ~descs[j].runtime_filter.nil

\* C18 witness: with more rows than the limit, the descriptor with remote targets
\* has its filter and the one with a local consumer only has none
C18_Witness ==
    /\ merge_bloom_status = "ok"
    /\ PostedRowsTotal > limit
    /\ \E j \in 1 .. NumDescs : \E l \in 1 .. NumDescs :
          /\ descs[j].has_consumer /\ descs[j].has_remote_targets
          /\ ~descs[j].runtime_filter.nil /\ descs[j].is_pipeline
          /\ descs[l].has_consumer /\ ~descs[l].has_remote_targets
          /\ descs[l].runtime_filter.nil /\ descs[l].is_pipeline

\* C19 (bloom sizing): after the merges every descriptor with a consumer, remote
\* targets and a creatable filter has a bloom filter, whether the IN-filter merge
\* went through, was aborted or failed, and every bloom filter there is was
\* initialised with the sum of the row counts of all N builders.
C19_BloomSizing ==
    Merged =>
        \A j \in 1 .. NumDescs :
            /\ (descs[j].has_consumer /\ descs[j].has_remote_targets /\ descs[j].creatable
                  /\ ~FillFailurePosted(j)) => ~descs[j].runtime_filter.nil
            /\ ~descs[j].runtime_filter.nil =>
                  descs[j].runtime_filter.row_count = PostedRowsTotal

\* C19 witness: no table is above the threshold, one is empty, a non-empty one
\* came with an empty IN-list so that the merged IN-list is empty, and the bloom
\* filters are there, sized to the sum of two non-empty tables
C19_Witness ==
    /\ Merged
    /\ MaxPostedRows <= InFilterRowLimit
    /\ \E i \in Builders : arg_ht[i] = 0
    /\ \E i \in Builders : arg_ht[i] > 0 /\ arg_in[i] = <<>>
    /\ \E i \in Builders : arg_ht[i] > 0 /\ arg_in[i] # <<>>
    /\ get_total_in_filters = <<>>
    /\ \A j \in 1 .. NumDescs :
          /\ ~descs[j].runtime_filter.nil
          /\ descs[j].runtime_filter.row_count = PostedRowsTotal
    /\ PostedRowsTotal > InFilterRowLimit

\* the builders whose lists the squeeze of merge_in_filters retains
Retained == {i \in Builders : arg_ht[i] > 0}

\* the merge of the IN-filters was not aborted and returned OK
InMergeWentThrough ==
    /\ merge_in_status = "ok"
    /\ Retained # {}
    /\ \A i \in Retained : arg_in[i] # <<>>
    /\ MaxPostedRows <= InFilterRowLimit

\* position p holds a predicate in the list of every retained builder
NonNullEverywhere(p) == \A i \in Retained : ~arg_in[i][p].nil

\* the positions in their order, each with the union of the retained builders'
\* keys where all of them hold a predicate, and nothing for the other positions
ExpectedTotal ==
    SelectSeq([p \in 1 .. NumJoinKeys |->
                  IF NonNullEverywhere(p)
                  THEN InFilter(0, p, UNION {arg_in[i][p].keys : i \in Retained})
                  ELSE NullInFilter],
              LAMBDA f : ~f.nil)

\* C20 (null-position propagation): when the merge of the IN-filters went through,
\* the merged list holds no nullptr, has no entry for a position at which some
\* retained builder posted nullptr, and has for every other position, in the
\* positions' order, the predicate with the union of the retained builders' keys.
C20_NullPositions ==
    InMergeWentThrough =>
        /\ get_total_in_filters = ExpectedTotal
        /\ \A n \in 1 .. Len(get_total_in_filters) : ~get_total_in_filters[n].nil

\* C20 witness: the first retained builder posted nullptr at the first position,
\* the later ones predicates everywhere; the merged list has the other positions
\* only, each with the keys of all builders
C20_Witness ==
    /\ InMergeWentThrough
    /\ Retained = Builders
    /\ arg_in[0] = HoledInList(0)
    /\ \A i \in Builders \ {0} : arg_in[i] = FullInList(i)
    /\ Len(get_total_in_filters) = NumJoinKeys - 1
    /\ \A n \in 1 .. Len(get_total_in_filters) :
          /\ get_total_in_filters[n].slot_id = n + 1
          /\ get_total_in_filters[n].keys = UNION {KeysOf(i, n + 1) : i \in Builders}

\* builder i is the only one with a non-empty hash table, which is within the
\* threshold, and its IN-list is non-empty and holds no nullptr
SoleContributor(i) ==
    /\ arg_ht[i] > 0 /\ arg_ht[i] <= InFilterRowLimit
    /\ arg_in[i] # <<>>
    /\ \A p \in 1 .. Len(arg_in[i]) : ~arg_in[i][p].nil
    /\ \A j \in Builders \ {i} : arg_ht[j] = 0

\* merge_in_filters on n slots of which only slot c belongs to a non-empty table
SoleMerge(n, c) ==
    merge_in_filters([i \in 0 .. n - 1 |-> IF i = c THEN InFilterRowLimit ELSE 0],
                     [i \in 0 .. n - 1 |-> IF i = c THEN FullInList(c) ELSE <<>>], {})

\* C21 (single contributing builder): after the merge, when one builder alone, at
\* whatever index, has a non-empty hash table of at most 1024 rows and posted a
\* non-empty IN-list without nullptr, get_total_in_filters() is that builder's
\* list as posted; and whenever a merge is about to run, merge_in_filters would
\* do the same for every number of builders from 1 on.
C21_SingleContributor ==
    /\ Merged => \A i \in Builders : SoleContributor(i) => get_total_in_filters = arg_in[i]
    /\ (\E idx \in Builders : bpc[idx] = "merging") =>
          \A n \in 1 .. NumBuilders : \A c \in 0 .. n - 1 :
              SoleMerge(n, c).status = "ok" /\ SoleMerge(n, c).v[0] = FullInList(c)

\* C21 witness: the only contributing builder is the last one, and the merged list
\* is the list it posted
C21_Witness ==
    /\ Merged
    /\ SoleContributor(NumBuilders - 1)
    /\ get_total_in_filters = FullInList(NumBuilders - 1)
    /\ Len(get_total_in_filters) = NumJoinKeys

\* the (tuple_id, slot_id) a filter is bound to
BindingOf(f) == <<f.tuple_id, f.slot_id>>

\* what the claim says of one filter and the single mapping m
ReboundBy(f, m) ==
    IF BindingOf(f) = <<m.to_tuple_id, m.to_slot_id>>
    THEN [f EXCEPT !.tuple_id = m.from_tuple_id, !.slot_id = m.from_slot_id]
    ELSE f

\* C22 (rewrite with one mapping): a call of rewrite_in_filters with a single
\* mapping rebinds to (from_tuple, from_slot) every filter bound to (to_tuple,
\* to_slot), leaves every other filter as it is, keeps the length and the order of
\* the list, and does not touch the bloom-filter list.
C22_OneMapping ==
    /\ [](Len(rw_mappings) = 1 =>
            \A n \in 1 .. Len(rw_history) - 1 :
                /\ Len(rw_history[n + 1]) = Len(rw_history[n])
                /\ \A j \in 1 .. Len(rw_history[n]) :
                      rw_history[n + 1][j] = ReboundBy(rw_history[n][j], rw_mappings[1]))
    /\ [][rw_bloom_filters' = rw_bloom_filters]_vars

\* C22 witness: of two filters with the same slot id the single mapping rebound
\* the one bound to its to_tuple and left the other, next to a bloom-filter list
C22_Witness ==
    /\ Len(rw_mappings) = 1
    /\ Len(rw_history) >= 2
    /\ rw_bloom_filters # <<>>
    /\ Len(rw_history[1]) = 2
    /\ rw_history[1][1].slot_id = rw_history[1][2].slot_id
    /\ rw_history[2][1] = rw_history[1][1]
    /\ rw_history[2][2] # rw_history[1][2]
    /\ BindingOf(rw_history[2][2]) = <<rw_mappings[1].from_tuple_id, rw_mappings[1].from_slot_id>>

\* the merged IN-list as the builders' inputs alone determine it: nothing after an
\* abort, else the positions that are non-null everywhere with the keys united
InTotalsFromInputs ==
    IF \/ Retained = {}
       \/ \E i \in Retained : arg_in[i] = <<>>
       \/ MaxPostedRows > InFilterRowLimit
    THEN <<>>
    ELSE ExpectedTotal

\* the descriptors as plan construction left them
DescsBefore ==
    [j \in 1 .. NumDescs |->
        Descriptor(descs[j].has_consumer, descs[j].has_remote_targets, descs[j].creatable)]

\* the descriptor at position j has a consumer and no remote targets
LocalOnly(j) == descs[j].has_consumer /\ ~descs[j].has_remote_targets

\* C23 (threshold independent of limit): whatever limit the merger was constructed
\* with, get_total_in_filters() after the merge is the list the builders' inputs
\* determine with the threshold 1024, so that mergers differing in limit only
\* agree on it; and every descriptor that is not local-only ends up as it would
\* under any other limit.
C23_LimitIndependence ==
    Merged =>
        /\ get_total_in_filters = InTotalsFromInputs
        /\ \A lim \in LimitChoices : \A j \in 1 .. NumDescs :
              ~LocalOnly(j) =>
                  descs[j] = merge_bloom_filters(arg_ht, arg_params, DescList, DescsBefore,
                                                 lim, {})[j]

\* C23 witness: a merger with a limit above 1024 and a table of 1025 rows, within
\* its limit: the merged IN-list is empty all the same, while a local-only
\* descriptor got the bloom filter a merger with limit 1024 would not build
C23_Witness ==
    /\ Merged
    /\ limit > InFilterRowLimit
    /\ MaxPostedRows > InFilterRowLimit /\ PostedRowsTotal <= limit
    /\ \A i \in Retained : arg_in[i] # <<>>
    /\ get_total_in_filters = <<>>
    /\ \E j \in 1 .. NumDescs :
          /\ LocalOnly(j) /\ ~descs[j].runtime_filter.nil
          /\ merge_bloom_filters(arg_ht, arg_params, DescList, DescsBefore,
                                 InFilterRowLimit, {})[j].runtime_filter.nil

\* the binding that results from binding b when the mappings from the n-th on are
\* followed one after another
RECURSIVE ChainBinding(_, _, _)
ChainBinding(b, mappings, n) ==
    IF n > Len(mappings) THEN b
    ELSE ChainBinding(IF b = <<mappings[n].to_tuple_id, mappings[n].to_slot_id>>
                      THEN <<mappings[n].from_tuple_id, mappings[n].from_slot_id>>
                      ELSE b,
                      mappings, n + 1)

\* the mapping list in the opposite order
Reversed(mappings) == [n \in 1 .. Len(mappings) |-> mappings[Len(mappings) + 1 - n]]

\* C24 (mappings chain in list order): after a call of rewrite_in_filters every
\* filter is bound to what following the mappings one after another, in list
\* order, from its binding before the call leads to; so a filter bound to the to
\* pair of a mapping, whose from pair is the to pair of the next mapping, ends up
\* at the from pair of that next mapping.
C24_ChainedMappings ==
    \A n \in 1 .. Len(rw_history) - 1 : \A j \in 1 .. Len(rw_history[n]) :
        /\ BindingOf(rw_history[n + 1][j])
              = ChainBinding(BindingOf(rw_history[n][j]), rw_mappings, 1)
        /\ \A m \in 1 .. Len(rw_mappings) - 1 :
              ( /\ m + 1 = Len(rw_mappings)
                /\ ChainBinding(BindingOf(rw_history[n][j]), SubSeq(rw_mappings, 1, m - 1), 1)
                      = <<rw_mappings[m].to_tuple_id, rw_mappings[m].to_slot_id>>
                /\ <<rw_mappings[m].from_tuple_id, rw_mappings[m].from_slot_id>>
                      = <<rw_mappings[m + 1].to_tuple_id, rw_mappings[m + 1].to_slot_id>> )
              => BindingOf(rw_history[n + 1][j])
                    = <<rw_mappings[m + 1].from_tuple_id, rw_mappings[m + 1].from_slot_id>>

\* C24 witness: in one call a filter was rebound by the first mapping and again by
\* the second, to a third binding, and the same mappings in the opposite order
\* would have left it elsewhere
C24_Witness ==
    /\ Len(rw_mappings) = 2
    /\ Len(rw_history) >= 2
    /\ \E j \in 1 .. Len(rw_history[1]) :
          /\ BindingOf(rw_history[1][j]) = <<rw_mappings[1].to_tuple_id, rw_mappings[1].to_slot_id>>
          /\ <<rw_mappings[1].from_tuple_id, rw_mappings[1].from_slot_id>>
                = <<rw_mappings[2].to_tuple_id, rw_mappings[2].to_slot_id>>
          /\ BindingOf(rw_history[2][j])
                = <<rw_mappings[2].from_tuple_id, rw_mappings[2].from_slot_id>>
          /\ Cardinality({BindingOf(rw_history[1][j]), BindingOf(rw_history[2][j]),
                          <<rw_mappings[1].from_tuple_id, rw_mappings[1].from_slot_id>>}) = 3
          /\ rewrite_in_filters(rw_history[1], Reversed(rw_mappings))[j] # rw_history[2][j]

\* the replicas left when every failed node held one
NonFailedReplicas == num_repicas - Cardinality(failed_channels)

\* C25 (intolerable failure): mark_as_failed only adds node ids, a node marked
\* again counting once, and has_intolerable_failure() never goes back from true to
\* false; under ALL it is true exactly when some node failed, under ONE exactly
\* when at least as many nodes failed as there are replicas, under MAJORITY
\* exactly when at least (replicas + 1) / 2 nodes failed, which is when the
\* replicas left are no strict majority of the replicas.
C25_IntolerableFailure ==
    /\ [](/\ write_quorum_type = "ALL" =>
                (has_intolerable_failure <=> Cardinality(failed_channels) >= 1)
          /\ write_quorum_type = "ONE" =>
                (has_intolerable_failure <=> Cardinality(failed_channels) >= num_repicas)
          /\ write_quorum_type = "MAJORITY" =>
                /\ has_intolerable_failure <=>
                      \E half \in 0 .. num_repicas :
                          /\ 2 * half \in {num_repicas, num_repicas + 1}
                          /\ Cardinality(failed_channels) >= half
                /\ has_intolerable_failure <=> ~(2 * NonFailedReplicas > num_repicas)
          /\ \A n \in NodeIds : is_failed_channel(n) <=> n \in failed_channels)
    /\ [][/\ failed_channels \subseteq failed_channels'
          /\ Cardinality(failed_channels') <= Cardinality(failed_channels) + 1
          /\ (\E n \in failed_channels : failed_channels' = failed_channels \cup {n})
                => Cardinality(failed_channels') = Cardinality(failed_channels)
          /\ has_intolerable_failure => has_intolerable_failure']_vars

\* C25 witness: three replicas under MAJORITY and two failed nodes: the failure is
\* intolerable, the one replica left being no majority
C25_Witness ==
    /\ write_quorum_type = "MAJORITY"
    /\ num_repicas = 3
    /\ Cardinality(failed_channels) = 2
    /\ has_intolerable_failure
    /\ NonFailedReplicas = 1

====
